---- MODULE Spec2Model ----
(***************************************************************************)
(* Model of the Yahoo Gemini Singer tap (tap_gemini): the time window      *)
(* generator, the report job, the "books closed" walk-back and the sync    *)
(* orchestrator.                                                           *)
(*                                                                         *)
(* Calendar dates are day ordinals (integers); day 0 is 2024-01-01.        *)
(* A Python value that may be a date, a datetime or a string is a record   *)
(* [type, day, tz].                                                        *)
(***************************************************************************)
EXTENDS Integers, Sequences, FiniteSets, TLC

VARIABLES
    today,              \* datetime.date.today(), a day ordinal
    now_min,            \* minutes past midnight of singer.utils.now()
    pending_limit,      \* remote: a job is pending for fewer status requests than this
    config,             \* the tap's configuration
    catalog,            \* the catalog's stream ids, in catalog order
    selected,           \* the ids get_selected_streams returns
    pc,                 \* position of the running code
    error,              \* name of the exception that ended the run, or "none"
    time_windows,       \* the generator (or tuple) sync iterates over
    windows,            \* the windows it has yielded so far, in order
    rep,                \* the GeminiReport of the current window
    n_attempts,         \* poll: local n_attempts
    http_log,           \* the HTTP requests the report has made, in order
    sleeps,             \* poll: the delays passed to time.sleep, in order
    rows,               \* write_records: the rows not yet read
    downloaded,         \* number of data rows of the current download
    counter,            \* write_records: the record_count counter
    check_date,         \* get_books_closed: local check_date
    bookmark_timestamp, \* get_books_closed: local bookmark_timestamp
    cob_log,            \* close-of-business requests of the current walk-back
    stream_idx,         \* sync: position of the stream loop in the catalog
    start_date,         \* sync: local start_date
    state,              \* sync: the state dictionary (stream id -> bookmark)
    emitted,            \* the last STATE message written, or None
    session,            \* sync: local session
    persisted,          \* bookmark days written for the current stream
    schemas,            \* streams whose schema message was written
    access_token,       \* GeminiSession._access_token, 0 when there is none
    auth_header,        \* the token in the session's Authorization header
    auth_calls,         \* number of calls of authenticate so far
    wire,               \* the HTTP requests the session has sent, in order
    call_start,         \* index in wire of the first request of the last call
    last_response,      \* the response the last call of request received
    outcome,            \* how the last call of request ended
    written,            \* write_records: the records emitted by this call
    bad_field           \* transform_record: the property its error log names

envVars == <<today, now_min, pending_limit, config, catalog, selected>>

ctlVars == <<pc, error>>

genVars == <<time_windows, windows>>

repVars == <<rep, n_attempts, http_log, sleeps, rows, downloaded, counter>>

bookVars == <<check_date, bookmark_timestamp, cob_log>>

syncVars == <<stream_idx, start_date, state, emitted, session, persisted, schemas>>

sessVars == <<access_token, auth_header, auth_calls, wire, call_start, last_response,
             outcome>>

recVars == <<written, bad_field>>

vars == <<envVars, ctlVars, genVars, repVars, bookVars, syncVars, sessVars, recVars>>

None == [type |-> "None"]

Min(a, b) == IF a <= b THEN a ELSE b

Max(a, b) == IF a >= b THEN a ELSE b

----------------------------------------------------------------------------
(* Python values *)

Date(d) == [type |-> "date", day |-> d, tz |-> "naive", min |-> 0]

Datetime(d, z) == [type |-> "datetime", day |-> d, tz |-> z, min |-> 0]

Str(d) == [type |-> "str", day |-> d, tz |-> "UTC", min |-> 0]

\* cast_date_to_datetime: the date at midnight UTC
cast_date_to_datetime(date) == Datetime(date.day, "UTC")

----------------------------------------------------------------------------
(* generate_time_windows *)

\* The generator object: its arguments, its locals and where it is suspended.
Generator(start, size, end) ==
    [kind |-> "generator", start |-> start, size |-> size, end |-> end,
     at |-> "created", _start |-> 0, _end |-> 0]

\* A mutation: the next window starts on the previous window's end.
GenAdvanceOverlap(_end) == _end

\* Line 157: the start of the next window.
GenAdvance(_end) == _end + 1

\* A mutation: the last window ends the day after the range end.
GenWindowEndOvershoot(_start, size, end) ==
    IF _start + size >= end THEN end + 1 ELSE _start + size

\* A mutation: the window end is not clamped to the range end.
GenWindowEndUnclamped(_start, size, end) == _start + size

\* Lines 146-149: the end of the window that starts at _start.
GenWindowEnd(_start, size, end) == Min(_start + size, end)

\* One next() on the generator: run to the next yield, to the return, or to
\* the exception raised by the type enforcement of lines 138-139.
GenResume(g) ==
    IF g.at = "created"
    THEN IF g.start.type = "str"
         THEN [g EXCEPT !.at = "raised"]
         ELSE [g EXCEPT !.at = "yielded",
                        !._start = g.start.day,
                        !._end = GenWindowEnd(g.start.day, g.size, g.end.day)]
    ELSE IF g._end >= g.end.day
         THEN [g EXCEPT !.at = "returned"]
         ELSE [g EXCEPT !.at = "yielded",
                        !._start = GenAdvance(g._end),
                        !._end = GenWindowEnd(GenAdvance(g._end), g.size, g.end.day)]

----------------------------------------------------------------------------
(* Specification of generate_time_windows alone: any start, size, end. *)

MaxGenDay == 20

MaxGenSize == 15

GenDays == 0 .. MaxGenDay

GenSizes == 1 .. MaxGenSize

MaxPollAttempts == 3

\* The parts of the state a specification of one function leaves idle.
IdleEnv ==
    /\ now_min = 0
    /\ pending_limit = MaxPollAttempts
    /\ config = [start_date |-> 0, advertiser_ids |-> <<>>]
    /\ catalog = <<>>
    /\ selected = {}

IdleReport ==
    /\ n_attempts = 0
    /\ http_log = <<>>
    /\ sleeps = <<>>
    /\ rows = <<>>
    /\ downloaded = 0
    /\ counter = 0

IdleBooks ==
    /\ check_date = None
    /\ bookmark_timestamp = None
    /\ cob_log = <<>>

IdleSync ==
    /\ stream_idx = 0
    /\ start_date = None
    /\ state = <<>>
    /\ emitted = None
    /\ session = None
    /\ persisted = <<>>
    /\ schemas = {}

IdleSession ==
    /\ access_token = 0
    /\ auth_header = 0
    /\ auth_calls = 0
    /\ wire = <<>>
    /\ call_start = 0
    /\ last_response = None
    /\ outcome = "none"

IdleRecords ==
    /\ written = <<>>
    /\ bad_field = "none"

InitGen ==
    /\ today = MaxGenDay
    /\ IdleEnv
    /\ pc = "generate_time_windows"
    /\ error = "none"
    /\ \E s \in GenDays, e \in GenDays, n \in GenSizes :
           time_windows = Generator(Date(s), n, Date(e))
    /\ windows = <<>>
    /\ rep = None
    /\ IdleReport
    /\ IdleBooks
    /\ IdleSync
    /\ IdleSession
    /\ IdleRecords

\* The consumer asks the generator for its next window.
GenIterate ==
    /\ pc = "generate_time_windows"
    /\ time_windows.at \in {"created", "yielded"}
    /\ time_windows' = GenResume(time_windows)
    /\ windows' = IF time_windows'.at = "yielded"
                  THEN Append(windows, <<time_windows'._start, time_windows'._end>>)
                  ELSE windows
    /\ UNCHANGED <<envVars, sessVars, recVars, ctlVars, repVars, bookVars, syncVars>>

NextGen == GenIterate

SpecGen == InitGen /\ [][NextGen]_vars

----------------------------------------------------------------------------
(* Claims about generate_time_windows *)

GenInputOrdered == time_windows.start.day <= time_windows.end.day

\* C1: for start <= end and size >= 1 the yielded windows reconstruct
\* [start, end]: the first window starts at start, every later window starts
\* the day after the previous window's end, and the last window ends at end.
C1_WindowsReconstructRange ==
    (pc = "generate_time_windows" /\ GenInputOrdered) =>
        /\ Len(windows) >= 1 => windows[1][1] = time_windows.start.day
        /\ \A i \in 1 .. Len(windows) - 1 : windows[i + 1][1] = windows[i][2] + 1
        /\ time_windows.at = "returned" =>
               /\ Len(windows) >= 1
               /\ windows[Len(windows)][2] = time_windows.end.day

C1_Witness ==
    /\ pc = "generate_time_windows"
    /\ GenInputOrdered
    /\ time_windows.at = "returned"
    /\ Len(windows) >= 3

\* C2: every yielded window (s, e) has e = min(s + size - 1, end), so it spans
\* at most size calendar days counted inclusively.
C2_WindowEndIsStartPlusSizeMinusOne ==
    (pc = "generate_time_windows" /\ GenInputOrdered) =>
        \A i \in 1 .. Len(windows) :
            windows[i][2] = Min(windows[i][1] + time_windows.size - 1,
                                time_windows.end.day)

----------------------------------------------------------------------------
(* GeminiReport: close_of_business and are_books_closed *)

Timezones == {"UTC", "America/Los_Angeles"}

\* What session.call gives for one close-of-business request: the status
\* dictionary, or one of the exceptions raised by GeminiSession.request.
CobStatus(day, month, tz) ==
    [kind |-> "ok", isDayClosed |-> day, isMonthClosed |-> month,
     advertiserTimezone |-> tz]

CobRaise(exc) ==
    [kind |-> exc, isDayClosed |-> FALSE, isMonthClosed |-> FALSE,
     advertiserTimezone |-> "UTC"]

CobResponses ==
    {CobStatus(d, m, z) : d \in BOOLEAN, m \in BOOLEAN, z \in Timezones}
        \cup {CobRaise("InvalidInputError"), CobRaise("GeminiHTTPError")}

\* One request of _close_of_business as it is recorded in cob_log.
CobRequest(date, with_cube, response) ==
    [date |-> date.day, cubeName |-> with_cube, response |-> response]

\* A mutation: the request is repeated without the cube after any failure.
CloseOfBusinessRequestsRetryAny(date, r1, r2) ==
    IF r1.kind # "ok"
    THEN <<CobRequest(date, TRUE, r1), CobRequest(date, FALSE, r2)>>
    ELSE <<CobRequest(date, TRUE, r1)>>

\* close_of_business(date): the requests it sends, given the outcome r1 of
\* the request that names the cube and the outcome r2 of the one without.
CloseOfBusinessRequests(date, r1, r2) ==
    IF r1.kind = "InvalidInputError"
    THEN <<CobRequest(date, TRUE, r1), CobRequest(date, FALSE, r2)>>
    ELSE <<CobRequest(date, TRUE, r1)>>

\* close_of_business(date): the status it returns or the exception it raises.
CloseOfBusiness(date, r1, r2) ==
    IF r1.kind = "InvalidInputError" THEN r2 ELSE r1

\* A mutation: the bookmark of a closed month is the first day of the next
\* month (months of 31 days).
AreBooksClosedNextMonth(date, status) ==
    IF status.isMonthClosed
    THEN Datetime(((date.day \div 31) + 1) * 31, status.advertiserTimezone)
    ELSE Datetime(date.day, status.advertiserTimezone)

\* are_books_closed(date), lines 263-278: books_closed is computed and only
\* logged; the timestamp is built and returned whatever the flags are.
AreBooksClosed(date, status) ==
    LET books_closed == status.isDayClosed \/ status.isMonthClosed
    IN  Datetime(date.day, status.advertiserTimezone)

----------------------------------------------------------------------------
(* get_books_closed *)

\* Offset of a zone from UTC, in minutes, as datetime.time(0, tzinfo=zone)
\* carries it: pytz zones used this way carry their first (local mean time)
\* offset.
UtcOffsetMinutes(tz) == IF tz = "America/Los_Angeles" THEN 0 - 473 ELSE 0

\* The instant of a timezone-aware midnight, in minutes since day 0 UTC.
Instant(dt) == dt.day * 1440 + dt.min - UtcOffsetMinutes(dt.tz)

\* datetime - timedelta(days=n)
MinusDays(dt, n) == [dt EXCEPT !.day = dt.day - n]

\* A mutation: the walk-back starts at the end date even when it is today.
BooksFirstCheckNoSkip(end_date, day_today) == cast_date_to_datetime(end_date)

\* Lines 278-282: the first date checked.
BooksFirstCheck(end_date, day_today) ==
    IF Instant(cast_date_to_datetime(end_date))
           = Instant(cast_date_to_datetime(Date(day_today)))
    THEN MinusDays(cast_date_to_datetime(end_date), 1)
    ELSE cast_date_to_datetime(end_date)

\* Lines 272-282.
BooksBegin ==
    /\ pc = "get_books_closed"
    /\ bookmark_timestamp' = cast_date_to_datetime(rep.start_date)
    /\ check_date' = BooksFirstCheck(rep.end_date, today)
    /\ cob_log' = <<>>
    /\ pc' = "books_loop"
    /\ UNCHANGED <<envVars, sessVars, recVars, error, genVars, repVars, syncVars>>

\* Lines 285-298: one iteration of the loop, with the call of
\* rep.are_books_closed and the requests it sends.
BooksLoop ==
    /\ pc = "books_loop"
    /\ \E r1 \in CobResponses, r2 \in CobResponses :
        LET status == CloseOfBusiness(check_date, r1, r2)
            books_closed_timestamp == AreBooksClosed(check_date, status)
            next_check == MinusDays(check_date, 1)
        IN  /\ cob_log' = cob_log \o CloseOfBusinessRequests(check_date, r1, r2)
            /\ IF status.kind # "ok"
               THEN /\ error' = status.kind
                    /\ pc' = "failed"
                    /\ UNCHANGED <<check_date, bookmark_timestamp>>
               ELSE /\ error' = error
                    /\ IF books_closed_timestamp # None
                       THEN /\ bookmark_timestamp' = books_closed_timestamp
                            /\ pc' = "books_return"
                            /\ UNCHANGED check_date
                       ELSE /\ check_date' = next_check
                            /\ pc' = IF Instant(next_check) < Instant(bookmark_timestamp)
                                     THEN "books_return"
                                     ELSE "books_loop"
                            /\ UNCHANGED bookmark_timestamp
    /\ UNCHANGED <<envVars, sessVars, recVars, genVars, repVars, syncVars>>

----------------------------------------------------------------------------
(* Specification of get_books_closed alone: any report range, any day. *)

MaxBooksDay == 4

BooksDays == 0 .. MaxBooksDay

\* report.py line 21, in tenths of a second.
DEFAULT_POLL_INTERVAL == 10

\* GeminiReport.__init__ for the fields the model follows; sync passes the
\* poll_interval of the configuration, which the model leaves unset.
Report(start, end, advertiser_ids) ==
    [type |-> "GeminiReport", start_date |-> start, end_date |-> end,
     advertiser_ids |-> advertiser_ids,
     poll_interval |-> DEFAULT_POLL_INTERVAL,
     job_id |-> "none", download_url |-> "none"]

InitBooks ==
    /\ today \in BooksDays
    /\ IdleEnv
    /\ pc = "get_books_closed"
    /\ error = "none"
    /\ time_windows = None
    /\ windows = <<>>
    /\ \E s \in BooksDays, e \in BooksDays : rep = Report(Date(s), Date(e), <<1>>)
    /\ IdleReport
    /\ IdleBooks
    /\ IdleSync
    /\ IdleSession
    /\ IdleRecords

NextBooks == BooksBegin \/ BooksLoop

SpecBooks == InitBooks /\ [][NextBooks]_vars

----------------------------------------------------------------------------
(* Claims about get_books_closed *)

\* The close-of-business statuses the walk-back received, in order.
CobAnswered == SelectSeq(cob_log, LAMBDA q : q.response.kind = "ok")

CobClosed(q) == q.response.isDayClosed \/ q.response.isMonthClosed

BooksReturned == pc = "books_return"

BooksRangeOrdered == rep.start_date.day <= rep.end_date.day

\* C4: the bookmark returned by get_books_closed is the window's start date
\* or a date whose close-of-business status reported the day or the month
\* closed; a date reported neither day-closed nor month-closed is never the
\* bookmark.
C4_BookmarkIsStartOrClosedDate ==
    BooksReturned =>
        \/ bookmark_timestamp.day = rep.start_date.day
        \/ \E i \in 1 .. Len(CobAnswered) :
               /\ CobAnswered[i].date = bookmark_timestamp.day
               /\ CobClosed(CobAnswered[i])

\* C5: for every window [start, end] the bookmark returned by the walk-back
\* is never earlier than the window's start.
C5_BookmarkNotBeforeStart ==
    (BooksReturned /\ BooksRangeOrdered) =>
        bookmark_timestamp.day >= rep.start_date.day

\* C6: a checked date that is neither day-closed nor month-closed is followed
\* by a query of the previous day (while still inside the window), and start
\* is returned when no checked date is closed.
C6_WalkBackDecrementsUntilClosed ==
    (BooksReturned /\ BooksRangeOrdered) =>
        /\ \A i \in 1 .. Len(CobAnswered) :
               (~CobClosed(CobAnswered[i])
                    /\ CobAnswered[i].date - 1 >= rep.start_date.day) =>
                   /\ i < Len(CobAnswered)
                   /\ CobAnswered[i + 1].date = CobAnswered[i].date - 1
        /\ (\A i \in 1 .. Len(CobAnswered) : ~CobClosed(CobAnswered[i])) =>
               bookmark_timestamp.day = rep.start_date.day

\* Day ordinals of the first days of the months of 2024 and of January 2025.
MonthStarts == {0, 31, 60, 91, 121, 152, 182, 213, 244, 274, 305, 335, 366}

FirstOfNextMonth(d) ==
    CHOOSE m \in MonthStarts : m > d /\ \A n \in MonthStarts : n > d => m <= n

LastAnswered == CobAnswered[Len(CobAnswered)]

\* C7 as stated: a month-closed status moves the bookmark to the first day of
\* the month after the checked date's month, a status that is only day-closed
\* moves it to the checked date.
C7_MonthClosedAdvancesToNextMonth ==
    (BooksReturned /\ Len(CobAnswered) >= 1) =>
        /\ LastAnswered.response.isMonthClosed =>
               bookmark_timestamp.day = FirstOfNextMonth(LastAnswered.date)
        /\ (LastAnswered.response.isDayClosed
                /\ ~LastAnswered.response.isMonthClosed) =>
               bookmark_timestamp.day = LastAnswered.date

\* C7 amended: whenever the status of the checked date reports the month or
\* the day closed, the bookmark is the checked date itself.
C7_ClosedBookmarkIsCheckedDate ==
    (BooksReturned /\ Len(CobAnswered) >= 1 /\ CobClosed(LastAnswered)) =>
        /\ bookmark_timestamp.day = LastAnswered.date
        /\ bookmark_timestamp.day = check_date.day

C7_Witness ==
    /\ BooksReturned
    /\ Len(CobAnswered) >= 1
    /\ LastAnswered.response.isMonthClosed
    /\ bookmark_timestamp.day = LastAnswered.date

----------------------------------------------------------------------------
(* settings.py and the stream kinds *)

MAX_WINDOW_DAYS ==
    [s \in {"search_stats", "performance_stats", "slot_performance_stats"} |-> 15]
    @@ [s \in {"keyword_stats", "product_ads", "site_performance_stats",
               "conversion_rules_stats", "domain_performance_stats",
               "call_extension_stats", "ad_extension_details",
               "adjustment_stats", "product_ad_performance_stats",
               "user_stats"} |-> 400]

MAX_LOOK_BACK_DAYS ==
    [s \in {"search_stats", "performance_stats", "slot_performance_stats"} |-> 15]
    @@ [s \in {"keyword_stats"} |-> 750]
    @@ [s \in {"product_ads", "site_performance_stats",
               "conversion_rules_stats", "domain_performance_stats",
               "call_extension_stats", "ad_extension_details",
               "adjustment_stats", "product_ad_performance_stats",
               "user_stats", "campaign_bid_performance_stats"} |-> 400]

\* The keys of OBJECT_MAP.
OBJECT_MAP ==
    {"advertiser", "campaign", "adgroup", "ad", "keyword", "targetingattribute",
     "adextensions", "sharedsitelink", "sharedsitelinksetting", "adsitesetting"}

----------------------------------------------------------------------------
(* GeminiReport: submit, poll, stream *)

MaxRows == 2

\* What session.call gives for the submission: the response data, or an
\* exception of the transport.
SubmitResponses ==
    {[kind |-> "ok", status |-> st, jobId |-> "job"] : st \in {"submitted", "failed"}}
        \cup {[kind |-> "GeminiHTTPError", status |-> "none", jobId |-> "none"]}

\* What session.call gives for one status request; the download location
\* comes with the completed status.
PollResponses ==
    {[kind |-> "ok", status |-> st,
      jobResponse |-> IF st = "completed" THEN "url" ELSE "none"] :
        st \in {"submitted", "running", "completed", "killed"}}
        \cup {[kind |-> "GeminiHTTPError", status |-> "none", jobResponse |-> "none"]}

\* A value of a row as the API delivers it: a text, or None.
Text(s) == [type |-> "str", repr |-> s]

Texts == {"12", "1.5", "abc"}

RawValues == {Text(s) : s \in Texts} \cup {None}

\* A declared type of the schema: a single string, or a list of strings
\* (union), which line 354 turns into a set.
DataType(t) == [union |-> FALSE, types |-> {t}]

DataTypes(ts) == [union |-> TRUE, types |-> ts]

\* schema['properties'] of the stream being written: property -> prop['type'].
\* No property of this schema declares a format.
Properties ==
    [Campaign |-> DataType("string"),
     Clicks |-> DataType("integer"),
     Spend |-> DataTypes({"null", "number"}),
     Flag |-> DataType("boolean"),
     Mixed |-> DataTypes({"integer", "string"})]

\* The data types line 360 can pop for a declared type, lines 353-360.
PoppedTypes(decl) ==
    IF ~decl.union THEN decl.types
    ELSE IF Cardinality(decl.types) > 1 THEN decl.types \ {"null"}
    ELSE decl.types

\* The texts int() and float() accept, and the text float() gives back.
IntTexts == {"12"}

FloatTexts == {"12", "1.5"}

FloatRepr(s) == IF s \in IntTexts THEN "12.0" ELSE s

CastReturned(v) == [exc |-> "none", value |-> v]

CastRaised(e) == [exc |-> e, value |-> None]

\* A mutation: a text that is not a number is cast to None.
transform_property_lenient(value, data_type) ==
    IF value = None THEN CastReturned(None)
    ELSE IF data_type = "string" THEN CastReturned([type |-> "str", repr |-> value.repr])
    ELSE IF data_type = "integer"
    THEN IF value.repr \in IntTexts
         THEN CastReturned([type |-> "int", repr |-> value.repr])
         ELSE CastReturned(None)
    ELSE IF data_type = "number"
    THEN IF value.repr \in FloatTexts
         THEN CastReturned([type |-> "float", repr |-> FloatRepr(value.repr)])
         ELSE CastReturned(None)
    ELSE CastRaised("ValueError")

\* transform_property, lines 303-327.
transform_property(value, data_type) ==
    IF value = None THEN CastReturned(None)
    ELSE IF data_type = "string" THEN CastReturned([type |-> "str", repr |-> value.repr])
    ELSE IF data_type = "integer"
    THEN IF value.repr \in IntTexts
         THEN CastReturned([type |-> "int", repr |-> value.repr])
         ELSE CastRaised("ValueError")
    ELSE IF data_type = "number"
    THEN IF value.repr \in FloatTexts
         THEN CastReturned([type |-> "float", repr |-> FloatRepr(value.repr)])
         ELSE CastRaised("ValueError")
    ELSE CastRaised("ValueError")

\* One field of a row, and a row: the fields in the order of record.items().
Field(key, value) == [key |-> key, value |-> value]

\* What transform_record can do with a record, lines 330-375: every way the
\* pops of line 360 can go gives one outcome, the transformed record or the
\* ValueError with the property the error log names.
RECURSIVE transform_record(_)
transform_record(record) ==
    IF record = <<>>
    THEN {[exc |-> "none", key |-> "none", record |-> <<>>]}
    ELSE LET f == Head(record)
         IN  UNION {LET r == transform_property(f.value, t)
                    IN  IF r.exc # "none"
                        THEN {[exc |-> r.exc, key |-> f.key, record |-> <<>>]}
                        ELSE {[o EXCEPT !.record = <<Field(f.key, r.value)>> \o @] :
                                 o \in transform_record(Tail(record))}
                    : t \in PoppedTypes(Properties[f.key])}

\* The rows of a sync run: one whose fields all cast, one with a field that
\* does not.
SyncRows == {<<Field("Clicks", Text("12"))>>, <<Field("Clicks", Text("abc"))>>}

RowSeqs ==
    UNION {[1 .. n -> SyncRows] : n \in 0 .. MaxRows}

\* One entry of http_log: the request and what came back.  job_id is the job
\* a status request addresses, or the jobId a submission was answered with.
Request(op, job_id, advertiserId, kind, status) ==
    [op |-> op, job_id |-> job_id, advertiserId |-> advertiserId,
     kind |-> kind, status |-> status]

\* A mutation: the last advertiser id is taken.
advertiser_id_last(r) == r.advertiser_ids[Len(r.advertiser_ids)]

\* The advertiser_id property, lines 192-203.
advertiser_id(r) == r.advertiser_ids[1]

\* A mutation: the job id is recorded before the status is looked at.
ReportStreamRecordsJobFirst ==
    /\ pc = "stream"
    /\ rep.download_url = "none" /\ rep.job_id = "none"
    /\ \E r \in SubmitResponses :
          /\ http_log' = Append(http_log, Request("submit", r.jobId, 0, r.kind, r.status))
          /\ rep' = [rep EXCEPT !.job_id = r.jobId]
          /\ IF r.kind = "ok" /\ r.status = "submitted"
             THEN pc' = "poll" /\ UNCHANGED error
             ELSE pc' = "failed" /\ error' = "RuntimeError"
    /\ UNCHANGED <<envVars, sessVars, recVars, genVars, n_attempts, sleeps, rows, downloaded,
                   counter, bookVars, syncVars>>

\* stream(), lines 176-177, with the start of poll (lines 117-125) and
\* submit (lines 92-106): the first thing iterating rep.stream() does.
ReportStream ==
    /\ pc = "stream"
    /\ IF rep.download_url # "none"
       THEN /\ pc' = "download"
            /\ UNCHANGED <<error, rep, n_attempts, http_log>>
       ELSE IF rep.job_id # "none"
       THEN /\ pc' = "poll"
            /\ n_attempts' = 0
            /\ UNCHANGED <<error, rep, http_log>>
       ELSE \E r \in SubmitResponses :
               /\ http_log' = Append(http_log,
                                     Request("submit", r.jobId, 0, r.kind, r.status))
               /\ IF r.kind # "ok"
                  THEN /\ pc' = "failed"
                       /\ error' = r.kind
                       /\ UNCHANGED <<rep, n_attempts>>
                  ELSE IF r.status # "submitted"
                  THEN /\ pc' = "failed"
                       /\ error' = "RuntimeError"
                       /\ UNCHANGED <<rep, n_attempts>>
                  ELSE /\ rep' = [rep EXCEPT !.job_id = r.jobId]
                       /\ n_attempts' = 0
                       /\ pc' = "poll"
                       /\ UNCHANGED error
    /\ UNCHANGED <<envVars, sessVars, recVars, genVars, sleeps, rows, downloaded, counter,
                   bookVars, syncVars>>

\* A mutation: a status the code does not know is taken for a job that is
\* still running.
ReportPollUnknownIsRunning ==
    /\ pc = "poll"
    /\ rep.advertiser_ids # <<>>
    /\ n_attempts' = n_attempts + 1
    /\ \E r \in PollResponses :
        /\ r.kind = "ok" /\ r.status # "completed"
        /\ n_attempts + 1 < pending_limit
        /\ http_log' = Append(http_log, Request("poll", rep.job_id,
                                  advertiser_id(rep), r.kind, r.status))
    /\ UNCHANGED <<envVars, sessVars, recVars, ctlVars, genVars, rep, sleeps, rows, downloaded,
                   counter, bookVars, syncVars>>

\* A mutation: every wait has the length of the first.
PollDelayConstant(poll_interval, n) ==
    [n |-> n, num |-> Max(10, poll_interval) + 2, den |-> 10]

\* Line 135: secs = (max(1.0, poll_interval) + 0.2) ** n_attempts, as the exact
\* fraction num / den; poll_interval is in tenths of a second.
PollDelay(poll_interval, n) ==
    [n |-> n, num |-> (Max(10, poll_interval) + 2) ^ n,
     den |-> 10 ^ n]

\* poll(), lines 131-166: one iteration of the polling loop.  The params of
\* the request are built first, and advertiser_ids[0] of an empty list raises.
ReportPoll ==
    /\ pc = "poll"
    /\ n_attempts' = n_attempts + 1
    /\ IF rep.advertiser_ids = <<>>
       THEN /\ pc' = "failed"
            /\ error' = "IndexError"
            /\ UNCHANGED <<rep, http_log, sleeps>>
       ELSE \E r \in PollResponses :
        /\ (r.kind = "ok" /\ r.status \in {"running", "submitted"}) =>
               n_attempts + 1 < pending_limit
        /\ http_log' = Append(http_log, Request("poll", rep.job_id,
                                  advertiser_id(rep), r.kind, r.status))
        /\ sleeps' = IF r.kind = "ok" /\ r.status \in {"running", "submitted"}
                      THEN Append(sleeps, PollDelay(rep.poll_interval, n_attempts'))
                      ELSE sleeps
        /\ IF r.kind # "ok"
           THEN /\ pc' = "failed"
                /\ error' = r.kind
                /\ UNCHANGED rep
           ELSE IF r.status = "completed"
           THEN /\ rep' = [rep EXCEPT !.download_url = r.jobResponse]
                /\ pc' = "download"
                /\ UNCHANGED error
           ELSE IF r.status \in {"running", "submitted"}
           THEN UNCHANGED <<pc, error, rep>>
           ELSE /\ pc' = "failed"
                /\ error' = "ValueError"
                /\ UNCHANGED rep
    /\ UNCHANGED <<envVars, sessVars, recVars, genVars, rows, downloaded, counter, bookVars, syncVars>>

\* A mutation: stream() polls again although the download location is known.
ReportDownloadPollsAgain ==
    /\ pc = "download"
    /\ http_log' = Append(Append(http_log,
                       Request("poll", rep.job_id, advertiser_id(rep), "ok", "completed")),
                       Request("download", "none", 0, "ok", "none"))
    /\ rows' \in RowSeqs
    /\ downloaded' = Len(rows')
    /\ pc' = "write_records"
    /\ UNCHANGED <<envVars, sessVars, recVars, error, genVars, rep, n_attempts, sleeps, counter,
                   bookVars, syncVars>>

\* stream(), lines 179-190: the download is opened and its header row read.
ReportDownload ==
    /\ pc = "download"
    /\ \/ /\ http_log' = Append(http_log, Request("download", "none", 0, "ok", "none"))
          /\ rows' \in RowSeqs
          /\ downloaded' = Len(rows')
          /\ pc' = "write_records"
          /\ UNCHANGED error
       \/ /\ http_log' = Append(http_log,
                                Request("download", "none", 0, "GeminiHTTPError", "none"))
          /\ pc' = "failed"
          /\ error' = "GeminiHTTPError"
          /\ UNCHANGED <<rows, downloaded>>
    /\ UNCHANGED <<envVars, sessVars, recVars, genVars, rep, n_attempts, sleeps, counter,
                   bookVars, syncVars>>

----------------------------------------------------------------------------
(* write_records *)

\* A mutation: a row that cannot be cast ends the stream, the error is
\* recorded and the stream loop goes on with the next stream.
WriteRecordAbortStreamOnly ==
    /\ pc = "write_records"
    /\ rows # <<>>
    /\ \E o \in transform_record(Head(rows)) :
          IF o.exc # "none"
          THEN /\ pc' = "for_stream"
               /\ error' = o.exc
               /\ bad_field' = o.key
               /\ UNCHANGED <<rows, counter, written>>
          ELSE \/ /\ rows' = Tail(rows)
                  /\ written' = Append(written, o.record)
                  /\ counter' = counter + 1
                  /\ UNCHANGED <<pc, error, bad_field>>
               \/ /\ pc' = "failed"
                  /\ error' = "OSError"
                  /\ UNCHANGED <<rows, counter, written, bad_field>>
    /\ UNCHANGED <<envVars, sessVars, genVars, rep, n_attempts, http_log, sleeps,
                   downloaded, bookVars, syncVars>>

\* A mutation: a row that cannot be cast is dropped and the loop goes on.
WriteRecordSkipBad ==
    /\ pc = "write_records"
    /\ rows # <<>>
    /\ \E o \in transform_record(Head(rows)) :
          IF o.exc # "none"
          THEN /\ rows' = Tail(rows)
               /\ bad_field' = o.key
               /\ UNCHANGED <<pc, error, counter, written>>
          ELSE \/ /\ rows' = Tail(rows)
                  /\ written' = Append(written, o.record)
                  /\ counter' = counter + 1
                  /\ UNCHANGED <<pc, error, bad_field>>
               \/ /\ pc' = "failed"
                  /\ error' = "OSError"
                  /\ UNCHANGED <<rows, counter, written, bad_field>>
    /\ UNCHANGED <<envVars, sessVars, genVars, rep, n_attempts, http_log, sleeps,
                   downloaded, bookVars, syncVars>>

\* Lines 390-425: one row is read, cast by transform_record (whose error
\* log names the property, line 370) and emitted.
WriteRecord ==
    /\ pc = "write_records"
    /\ rows # <<>>
    /\ \E o \in transform_record(Head(rows)) :
          IF o.exc # "none"
          THEN /\ pc' = "failed"
               /\ error' = o.exc
               /\ bad_field' = o.key
               /\ UNCHANGED <<rows, counter, written>>
          ELSE \/ /\ rows' = Tail(rows)
                  /\ written' = Append(written, o.record)
                  /\ counter' = counter + 1
                  /\ UNCHANGED <<pc, error, bad_field>>
               \/ /\ pc' = "failed"
                  /\ error' = "OSError"
                  /\ UNCHANGED <<rows, counter, written, bad_field>>
    /\ UNCHANGED <<envVars, sessVars, genVars, rep, n_attempts, http_log, sleeps,
                   downloaded, bookVars, syncVars>>

\* Line 390 when the rows are exhausted: write_records returns to sync, which
\* goes on to the next stream (line 495) or to get_books_closed (line 562).
WriteRecordsReturn ==
    /\ pc = "write_records"
    /\ rows = <<>>
    /\ IF catalog[stream_idx] \in OBJECT_MAP
       THEN /\ pc' = "for_stream"
            /\ downloaded' = 0
            /\ counter' = 0
       ELSE /\ pc' = "get_books_closed"
            /\ UNCHANGED <<downloaded, counter>>
    /\ written' = <<>>
    /\ UNCHANGED <<envVars, sessVars, bad_field, error, genVars, rep, n_attempts,
                   http_log, sleeps, rows, bookVars, syncVars>>

----------------------------------------------------------------------------
(* sync *)

\* singer.utils.now()
Now == [Datetime(today, "UTC") EXCEPT !.min = now_min]

\* The one-element tuple of lines 530-532, as an iterator like the generator.
DefaultWindow(start, end) ==
    [kind |-> "tuple", start |-> start, size |-> 0, end |-> end,
     at |-> "created", _start |-> 0, _end |-> 0]

\* One step of "for start, end in time_windows".
IterNext(tw) ==
    IF tw.kind = "generator"
    THEN GenResume(tw)
    ELSE IF tw.at = "created"
         THEN [tw EXCEPT !.at = "yielded", !._start = tw.start.day,
                         !._end = tw.end.day]
         ELSE [tw EXCEPT !.at = "returned"]

\* A mutation: the schema of a stream is written before the selection is
\* looked at.
SyncSkipStreamWritesSchema ==
    /\ pc = "for_stream"
    /\ stream_idx < Len(catalog)
    /\ catalog[stream_idx + 1] \notin selected
    /\ stream_idx' = stream_idx + 1
    /\ schemas' = schemas \cup {catalog[stream_idx + 1]}
    /\ UNCHANGED <<envVars, sessVars, recVars, ctlVars, genVars, repVars, bookVars,
                   start_date, state, emitted, session, persisted>>

\* Lines 447-453: a stream that is not selected is skipped.
SyncSkipStream ==
    /\ pc = "for_stream"
    /\ stream_idx < Len(catalog)
    /\ catalog[stream_idx + 1] \notin selected
    /\ stream_idx' = stream_idx + 1
    /\ UNCHANGED <<envVars, sessVars, recVars, ctlVars, genVars, repVars, bookVars,
                   start_date, state, emitted, session, persisted, schemas>>

\* Lines 447-482: the next selected stream: its schema is written and the
\* session is created on first use (line 482 lists the advertisers).
SyncStartStream ==
    /\ pc = "for_stream"
    /\ stream_idx < Len(catalog)
    /\ catalog[stream_idx + 1] \in selected
    /\ stream_idx' = stream_idx + 1
    /\ schemas' = schemas \cup {catalog[stream_idx + 1]}
    /\ persisted' = <<>>
    /\ windows' = <<>>
    /\ IF session = None
       THEN \/ /\ session' = [type |-> "GeminiSession"]
               /\ pc' = "stream_body"
               /\ UNCHANGED error
            \/ /\ pc' = "failed"
               /\ error' = "GeminiHTTPError"
               /\ UNCHANGED session
       ELSE /\ pc' = "stream_body"
            /\ UNCHANGED <<error, session>>
    /\ UNCHANGED <<envVars, sessVars, recVars, time_windows, repVars, bookVars, start_date, state,
                   emitted>>

\* Line 447 when the catalog is exhausted: sync returns.
SyncReturn ==
    /\ pc = "for_stream"
    /\ stream_idx = Len(catalog)
    /\ pc' = "done"
    /\ UNCHANGED <<envVars, sessVars, recVars, error, genVars, repVars, bookVars, syncVars>>

\* A mutation: the listing stream gets today's date as its bookmark.
SyncListObjectsBookmarks ==
    /\ pc = "stream_body"
    /\ catalog[stream_idx] \in OBJECT_MAP
    /\ rows' \in RowSeqs
    /\ downloaded' = Len(rows')
    /\ counter' = 0
    /\ pc' = "write_records"
    /\ state' = [state EXCEPT ![catalog[stream_idx]] = Str(today)]
    /\ UNCHANGED <<envVars, sessVars, recVars, error, genVars, rep, n_attempts, http_log, sleeps,
                   bookVars, stream_idx, start_date, emitted, session, persisted,
                   schemas>>

\* Lines 485-495: a listing stream: list_data calls the API once.
SyncListObjects ==
    /\ pc = "stream_body"
    /\ catalog[stream_idx] \in OBJECT_MAP
    /\ \/ /\ rows' \in RowSeqs
          /\ downloaded' = Len(rows')
          /\ counter' = 0
          /\ pc' = "write_records"
          /\ UNCHANGED error
       \/ /\ pc' = "failed"
          /\ error' = "GeminiHTTPError"
          /\ UNCHANGED <<rows, downloaded, counter>>
    /\ UNCHANGED <<envVars, sessVars, recVars, genVars, rep, n_attempts, http_log, sleeps, bookVars, syncVars>>

\* Lines 501-502: the stream's bookmark (a string of the state file) or the
\* start date left by the code before.
BookmarkOrStart(stream_id) ==
    IF state[stream_id] # None THEN state[stream_id] ELSE start_date

\* Line 510.
LookBackStart(stream_id) ==
    [Now EXCEPT !.day = today - MAX_LOOK_BACK_DAYS[stream_id]]

\* Lines 500-532: the start date of a report stream and its time windows.
\* Comparing the look-back datetime with a bookmark string raises TypeError.
SyncReportRange ==
    /\ pc = "stream_body"
    /\ catalog[stream_idx] \notin OBJECT_MAP
    /\ LET stream_id == catalog[stream_idx]
           from == BookmarkOrStart(stream_id)
           limited == stream_id \in DOMAIN MAX_LOOK_BACK_DAYS
       IN  IF limited /\ from.type = "str"
           THEN /\ pc' = "failed"
                /\ error' = "TypeError"
                /\ start_date' = from
                /\ UNCHANGED time_windows
           ELSE /\ start_date' =
                      IF limited /\ Instant(LookBackStart(stream_id)) > Instant(from)
                      THEN LookBackStart(stream_id)
                      ELSE from
                /\ time_windows' =
                      IF stream_id \in DOMAIN MAX_WINDOW_DAYS
                      THEN Generator(start_date', MAX_WINDOW_DAYS[stream_id],
                                     cast_date_to_datetime(Date(today)))
                      ELSE DefaultWindow(start_date',
                                         cast_date_to_datetime(Date(today)))
                /\ pc' = "for_window"
                /\ UNCHANGED error
    /\ UNCHANGED <<envVars, sessVars, recVars, windows, repVars, bookVars,
                   stream_idx, state, emitted, session, persisted, schemas>>

\* Lines 535-558: the next window is taken from time_windows, the report is
\* built (build_report_params reads .year of both dates) and write_records is
\* entered; or the windows are exhausted and the stream loop goes on.
SyncNextWindow ==
    /\ pc = "for_window"
    /\ time_windows' = IterNext(time_windows)
    /\ IF time_windows'.at = "returned"
       THEN /\ pc' = "for_stream"
            /\ UNCHANGED <<error, windows, repVars>>
       ELSE IF time_windows'.at = "raised" \/ time_windows'.start.type = "str"
       THEN /\ pc' = "failed"
            /\ error' = "AttributeError"
            /\ UNCHANGED <<windows, repVars>>
       ELSE /\ windows' = Append(windows, <<time_windows'._start, time_windows'._end>>)
            /\ rep' = Report(Date(time_windows'._start), Date(time_windows'._end),
                             config.advertiser_ids)
            /\ n_attempts' = 0
            /\ http_log' = <<>>
            /\ sleeps' = <<>>
            /\ rows' = <<>>
            /\ downloaded' = 0
            /\ counter' = 0
            /\ pc' = "stream"
            /\ UNCHANGED error
    /\ UNCHANGED <<envVars, sessVars, recVars, bookVars, syncVars>>

\* A mutation: the bookmark is kept in memory and no STATE message is written
\* per window.
SyncWriteBookmarkNoEmit ==
    /\ pc = "books_return"
    /\ state' = [state EXCEPT ![catalog[stream_idx]] =
                     Str(cast_date_to_datetime(bookmark_timestamp).day)]
    /\ pc' = "for_window"
    /\ rep' = None
    /\ n_attempts' = 0
    /\ http_log' = <<>>
    /\ sleeps' = <<>>
    /\ downloaded' = 0
    /\ counter' = 0
    /\ check_date' = None
    /\ bookmark_timestamp' = None
    /\ cob_log' = <<>>
    /\ UNCHANGED <<envVars, sessVars, recVars, error, genVars, rows,
                   stream_idx, start_date, emitted, session, persisted, schemas>>

\* A mutation: the bookmark written is the day after the date resolved.
SyncWriteBookmarkDayAfter ==
    /\ pc = "books_return"
    /\ LET val == Str(cast_date_to_datetime(bookmark_timestamp).day + 1)
       IN  /\ state' = [state EXCEPT ![catalog[stream_idx]] = val]
           /\ emitted' = state'
           /\ persisted' = Append(persisted, val.day)
    /\ pc' = "for_window"
    /\ rep' = None
    /\ n_attempts' = 0
    /\ http_log' = <<>>
    /\ sleeps' = <<>>
    /\ downloaded' = 0
    /\ counter' = 0
    /\ check_date' = None
    /\ bookmark_timestamp' = None
    /\ cob_log' = <<>>
    /\ UNCHANGED <<envVars, sessVars, recVars, error, genVars, rows,
                   stream_idx, start_date, session, schemas>>

\* Lines 565-572: write_bookmark puts the bookmark in the state dictionary
\* and write_state emits the dictionary; the window is over and its locals
\* and counts are dropped.
SyncWriteBookmark ==
    /\ pc = "books_return"
    /\ LET val == Str(cast_date_to_datetime(bookmark_timestamp).day)
       IN  /\ state' = [state EXCEPT ![catalog[stream_idx]] = val]
           /\ emitted' = state'
           /\ persisted' = Append(persisted, val.day)
    /\ pc' = "for_window"
    /\ rep' = None
    /\ n_attempts' = 0
    /\ http_log' = <<>>
    /\ sleeps' = <<>>
    /\ downloaded' = 0
    /\ counter' = 0
    /\ check_date' = None
    /\ bookmark_timestamp' = None
    /\ cob_log' = <<>>
    /\ UNCHANGED <<envVars, sessVars, recVars, error, genVars, rows,
                   stream_idx, start_date, session, schemas>>

----------------------------------------------------------------------------
(* Specification of sync *)

\* The current day of the runs explored.
SyncToday == 800

SyncPollAttempts == 2

\* The configured start dates explored, in days before today.
StartOffsets == {760, 401, 16, 0, 0 - 1}

Catalogs ==
    {<<"performance_stats", "keyword_stats", "campaign_bid_performance_stats",
       "structured_snippet_extension", "advertiser">>}

\* The state file: no bookmark, or one stream with yesterday's bookmark.
InitialStates(streams) ==
    {[s \in streams |-> IF s \in b THEN Str(SyncToday - 1) ELSE None] :
        b \in {{}} \cup {{s} : s \in streams \ OBJECT_MAP}}

Range(f) == {f[i] : i \in DOMAIN f}

\* Lines 433-444: sync is entered.
Init ==
    /\ today = SyncToday
    /\ now_min \in {0, 600}
    /\ pending_limit = SyncPollAttempts
    /\ \E o \in StartOffsets : config = [start_date |-> SyncToday - o,
                                      advertiser_ids |-> <<2, 1>>]
    /\ catalog \in Catalogs
    /\ selected \in SUBSET Range(catalog)
    /\ pc = "for_stream"
    /\ error = "none"
    /\ time_windows = None
    /\ windows = <<>>
    /\ rep = None
    /\ IdleReport
    /\ IdleBooks
    /\ stream_idx = 0
    /\ start_date = Datetime(config.start_date, "UTC")
    /\ state \in InitialStates(Range(catalog))
    /\ emitted = None
    /\ session = None
    /\ persisted = <<>>
    /\ schemas = {}
    /\ IdleSession
    /\ IdleRecords

Next ==
    \/ SyncSkipStream
    \/ SyncStartStream
    \/ SyncReturn
    \/ SyncListObjects
    \/ SyncReportRange
    \/ SyncNextWindow
    \/ ReportStream
    \/ ReportPoll
    \/ ReportDownload
    \/ WriteRecord
    \/ WriteRecordsReturn
    \/ BooksBegin
    \/ BooksLoop
    \/ SyncWriteBookmark

Spec == Init /\ [][Next]_vars

----------------------------------------------------------------------------
(* Claims about sync *)

StreamId == catalog[stream_idx]

\* A report of the current stream has been built and its window is not over.
WindowOpen ==
    pc \in {"stream", "poll", "download", "write_records",
            "get_books_closed", "books_loop", "books_return"}
        /\ stream_idx >= 1
        /\ StreamId \notin OBJECT_MAP

ReportSubmitted == WindowOpen /\ rep.job_id # "none"

\* C3: every report submitted for a stream that has an entry in
\* MAX_WINDOW_DAYS covers at most that many days, both ends included.
C3_SubmittedRangeWithinMaxWindow ==
    (ReportSubmitted /\ StreamId \in DOMAIN MAX_WINDOW_DAYS) =>
        rep.end_date.day - rep.start_date.day + 1 <= MAX_WINDOW_DAYS[StreamId]

\* C8: while window k of a stream is being processed, or when the run has
\* failed in it, the bookmarks of windows 1..k-1 have been written and the
\* last STATE message carries the bookmark of window k-1: the state is
\* emitted per window, before the next window's report is submitted.
C8_BookmarkPersistedBeforeNextWindow ==
    ((WindowOpen \/ pc = "failed") /\ stream_idx >= 1 /\ Len(windows) >= 1) =>
        /\ Len(persisted) >= Len(windows) - 1
        /\ Len(windows) >= 2 =>
               /\ emitted # None
               /\ emitted[StreamId] = Str(persisted[Len(windows) - 1])
               /\ state = emitted

C8_Witness ==
    /\ pc = "failed"
    /\ stream_idx >= 1
    /\ Len(windows) = 2
    /\ rep # None
    /\ Len(persisted) = 1
    /\ emitted # None
    /\ emitted[StreamId] = Str(persisted[1])

\* C9: the bookmark map changes only in the step that follows a window whose
\* rows were all read, cast and emitted, and only for the current stream; a
\* step that fails leaves the state dictionary and the emitted state as they
\* were.
C9_BookmarkOnlyAfterAllRows ==
    [][/\ (state' # state \/ emitted' # emitted) =>
              /\ pc = "books_return"
              /\ rows = <<>>
              /\ counter = downloaded
              /\ \A s \in DOMAIN state : s # StreamId => state'[s] = state[s]
       /\ pc' = "failed" => (state' = state /\ emitted' = emitted)]_vars

\* A window that failed after some of its records were emitted: the state
\* still holds the bookmark of the window before.
C9_Witness ==
    /\ pc = "failed"
    /\ error = "ValueError"
    /\ stream_idx >= 1
    /\ Len(windows) = 2
    /\ counter >= 1
    /\ counter < downloaded
    /\ Len(persisted) = 1
    /\ state[StreamId] = Str(persisted[1])

\* C10: the windows of a stream are submitted in chronological order (each
\* starts after the end of the one before) and the bookmark values written
\* for the stream during the run never decrease.
C10_WindowsChronologicalBookmarksMonotonic ==
    /\ \A i \in 1 .. Len(windows) - 1 : windows[i + 1][1] > windows[i][2]
    /\ \A i \in 1 .. Len(persisted) - 1 : persisted[i] <= persisted[i + 1]

C10_Witness ==
    /\ pc = "for_window"
    /\ Len(windows) = 2
    /\ Len(persisted) = 2
    /\ persisted[1] < persisted[2]

----------------------------------------------------------------------------
(* Claims about failures and the start date in sync *)

\* The run has ended with an exception raised inside a window of a stream.
WindowFailed == pc = "failed" /\ stream_idx >= 1 /\ rep # None

\* The selected streams that come later in the catalog than the current one.
LaterSelected ==
    {catalog[i] : i \in {j \in DOMAIN catalog : j > stream_idx}} \cap selected

\* C11 as stated: a failure inside a window does not end the run with the
\* error; every selected stream later in the catalog is still attempted.
C11_WindowFailureSparesLaterStreams ==
    WindowFailed => LaterSelected \subseteq schemas

\* C11 amended: an exception raised inside a window ends the whole run: the
\* position "failed" is final and no stream later in the catalog is attempted.
C11_WindowFailureEndsRun ==
    /\ [](error # "none" => pc = "failed")
    /\ [](WindowFailed => LaterSelected \cap schemas = {})
    /\ [][pc # "failed"]_vars

C11_Witness ==
    /\ WindowFailed
    /\ LaterSelected # {}
    /\ LaterSelected \cap schemas = {}

\* The start date section 4.6 of the specification prescribes for a stream:
\* the later of the bookmark (the configured start date without one) and the
\* look-back cutoff.
EffectiveStart(stream_id) ==
    LET base == IF state[stream_id] # None
                THEN state[stream_id].day
                ELSE config.start_date
    IN  IF stream_id \in DOMAIN MAX_LOOK_BACK_DAYS
        THEN IF today - MAX_LOOK_BACK_DAYS[stream_id] > base
             THEN today - MAX_LOOK_BACK_DAYS[stream_id]
             ELSE base
        ELSE base

\* C15: the start date of a report stream is the maximum of the bookmark (or
\* the configured start date) and the stream's look-back cutoff.
C15_StartIsMaxOfBookmarkAndCutoff ==
    (pc = "for_window" /\ time_windows.at = "created") =>
        time_windows.start.day = EffectiveStart(StreamId)

\* C16: a report stream without a maximum window size gets exactly one
\* report, for the range from the effective start date to today.
C16_SingleReportFromEffectiveStartToToday ==
    (ReportSubmitted /\ StreamId \notin DOMAIN MAX_WINDOW_DAYS) =>
        /\ Len(windows) = 1
        /\ rep.start_date.day = EffectiveStart(StreamId)
        /\ rep.end_date.day = today

----------------------------------------------------------------------------
(* GeminiReport.stream on its own *)

AdvertiserIdLists == {<<>>, <<1>>, <<2, 1>>}

\* The job id and the download location an earlier submit() or poll() of the
\* same report left behind, with the requests that produced them.
ReportHistories(ids) ==
    {[job_id |-> "none", download_url |-> "none", log |-> <<>>],
     [job_id |-> "job0", download_url |-> "none",
      log |-> <<Request("submit", "job0", 0, "ok", "submitted")>>]}
    \cup IF ids = <<>> THEN {}
         ELSE {[job_id |-> "job0", download_url |-> "url0",
                log |-> <<Request("submit", "job0", 0, "ok", "submitted"),
                          Request("poll", "job0", ids[1], "ok", "completed")>>]}

\* poll_interval as float(poll_interval or DEFAULT_POLL_INTERVAL) leaves it,
\* in tenths of a second: below, at and above the minimum of one second.
PollIntervals == {5, DEFAULT_POLL_INTERVAL, 50}

InitReport ==
    /\ today = 0
    /\ IdleEnv
    /\ pc = "stream"
    /\ error = "none"
    /\ time_windows = None
    /\ windows = <<>>
    /\ \E s \in BooksDays, e \in BooksDays, ids \in AdvertiserIdLists :
       \E h \in ReportHistories(ids), interval \in PollIntervals :
          /\ s <= e
          /\ rep = [Report(Date(s), Date(e), ids) EXCEPT
                        !.job_id = h.job_id, !.download_url = h.download_url,
                        !.poll_interval = interval]
          /\ http_log = h.log
    /\ sleeps = <<>>
    /\ n_attempts = 0
    /\ rows = <<>>
    /\ downloaded = 0
    /\ counter = 0
    /\ IdleBooks
    /\ IdleSync
    /\ IdleSession
    /\ IdleRecords

NextReport == ReportStream \/ ReportPoll \/ ReportDownload

SpecReport == InitReport /\ [][NextReport]_vars

Submits == {i \in DOMAIN http_log : http_log[i].op = "submit"}

Polls == {i \in DOMAIN http_log : http_log[i].op = "poll"}

Downloads == {i \in DOMAIN http_log : http_log[i].op = "download"}

RefusedSubmits ==
    {i \in Submits : http_log[i].kind = "ok" /\ http_log[i].status # "submitted"}

\* C17: when the answer to the submission has a status other than
\* "submitted", the call fails with RuntimeError, the report keeps no job id,
\* and that submission is the only one and the last request made.
C17_RefusedSubmissionFailsWithoutJobId ==
    \A i \in RefusedSubmits :
        /\ pc = "failed"
        /\ error = "RuntimeError"
        /\ rep.job_id = "none"
        /\ Submits = {i}
        /\ i = Len(http_log)

C17_Witness ==
    /\ RefusedSubmits # {}
    /\ http_log[Len(http_log)].job_id # "none"
    /\ pc = "failed"

UnknownStatusPolls ==
    {i \in Polls : /\ http_log[i].kind = "ok"
                   /\ http_log[i].status \notin {"submitted", "running", "completed"}}

\* C18: a status answer that is none of submitted, running, completed ends
\* poll with ValueError at once: it is the last request the report makes, and
\* the report has no download location.
C18_UnknownStatusAbortsPolling ==
    \A i \in UnknownStatusPolls :
        /\ i = Len(http_log)
        /\ pc = "failed"
        /\ error = "ValueError"
        /\ rep.download_url = "none"

C18_Witness ==
    /\ UnknownStatusPolls # {}
    /\ Len(http_log) >= 3
    /\ pc = "failed"

AcceptedSubmits ==
    {i \in Submits : http_log[i].kind = "ok" /\ http_log[i].status = "submitted"}

\* C19: every status request addresses the job id the accepted submission
\* before it was answered with, which is the job id of the report, and carries
\* the first id of the report's advertiser_ids.
C19_PollAddressesJobAndFirstAdvertiser ==
    \A i \in Polls :
        /\ \E j \in AcceptedSubmits : j < i /\ http_log[j].job_id = http_log[i].job_id
        /\ http_log[i].job_id = rep.job_id
        /\ rep.advertiser_ids # <<>>
        /\ http_log[i].advertiserId = rep.advertiser_ids[1]

C19_Witness ==
    /\ Polls # {}
    /\ Len(rep.advertiser_ids) > 1
    /\ rep.advertiser_ids[1] # rep.advertiser_ids[Len(rep.advertiser_ids)]
    /\ rep.job_id = "job"

CompletedPolls ==
    {i \in Polls : http_log[i].kind = "ok" /\ http_log[i].status = "completed"}

\* C20: a download comes right after a status request answered completed, a
\* status request comes after an accepted submission; when stream() finds a
\* download location it makes no request before the download, and the
\* download is one request.
C20_SubmitThenPollThenDownload ==
    /\ [](\A i \in Downloads : i > 1 /\ (i - 1) \in CompletedPolls)
    /\ [](\A i \in Polls : \E j \in AcceptedSubmits : j < i)
    /\ [][(pc = "stream" /\ rep.download_url # "none") =>
              (pc' = "download" /\ http_log' = http_log /\ rep' = rep)]_vars
    /\ [][pc = "download" =>
              (/\ Len(http_log') = Len(http_log) + 1
               /\ http_log'[Len(http_log')].op = "download")]_vars

C20_Witness ==
    /\ pc = "write_records"
    /\ Len(http_log) = 3
    /\ rep.job_id = "job0"
    /\ Downloads = {3}

----------------------------------------------------------------------------
(* GeminiSession *)

MaxRequests == 3

MaxErrors == 2

\* transport.py lines 29-61, the exception classes by their names.
ERROR_MAP ==
    (500 :> ("E10000_INTERNAL_SERVER_ERROR" :> "InternalServerError"
             @@ "E60000_UNKNOWN_REPORTING_ERROR" :> "UnknownReportingError"))
    @@ (406 :> ("E30001_UNSUPPORTED_FEATURE" :> "UnsupportedFeatureError"))
    @@ (400 :> ("E40000_INVALID_INPUT" :> "InvalidInputError"))
    @@ (401 :> ("E50000_AUTHORIZATION_ERROR" :> "AuthorizationError"))
    @@ (503 :> ("E50003_SERVICE_UNAVAILABLE" :> "ServiceUnavailableError"))
    @@ (408 :> ("E40001_REQUEST_TIMEOUT" :> "RequestTimeoutError"))
    @@ (405 :> ("E40002_ACCOUNT_IN_SYNC_READ_ONLY" :> "AccountInSyncReadOnlyError"))
    @@ (403 :> ("E40003_TOO_MANY_REQUESTS" :> "TooManyRequestsError"))
    @@ (409 :> ("E40004_REQUEST_CONFLICT" :> "RequestsConflictError"))
    @@ (404 :> ("E40005_NOT_FOUND" :> "NotFoundError"))

\* http.HTTPStatus.UNAUTHORIZED
UNAUTHORIZED == 401

\* The error codes a response body may list; the last is in no row of ERROR_MAP.
ErrorCodes ==
    {"E50000_AUTHORIZATION_ERROR", "E40003_TOO_MANY_REQUESTS",
     "E40000_INVALID_INPUT", "E00000_UNLISTED"}

\* Statuses of the responses: one success, three rows of ERROR_MAP and one
\* error status that has no row.
ErrorStatuses == {400, 401, 403, 502}

\* The JSON body of an error response: a list under 'errors', one error under
\* 'error', neither key, or no JSON at all.
Bodies ==
    {[kind |-> "errors", errors |-> e] :
        e \in UNION {[1 .. n -> ErrorCodes] : n \in 0 .. MaxErrors}}
    \cup {[kind |-> "error", errors |-> <<c>>] : c \in ErrorCodes}
    \cup {[kind |-> k, errors |-> <<>>] : k \in {"neither", "not_json"}}

Responses ==
    {[status |-> 200, body |-> [kind |-> "neither", errors |-> <<>>]]}
    \cup {[status |-> st, body |-> b] : st \in ErrorStatuses, b \in Bodies}

\* A mutation: the last error of the list decides the exception.
LastError(errors) == errors[Len(errors)]

\* Lines 255-259: the loop raises in its first iteration.
FirstError(errors) == errors[1]

\* Line 257: the lookup in ERROR_MAP, which raises KeyError when the status or
\* the code is not there.
RaisedFor(status, code) ==
    IF status \notin DOMAIN ERROR_MAP THEN "KeyError"
    ELSE IF code \notin DOMAIN ERROR_MAP[status] THEN "KeyError"
    ELSE ERROR_MAP[status][code]

\* request, lines 228-261: "returned" or the name of the exception raised.
RequestOutcome(resp) ==
    IF resp.status < 400 THEN "returned"
    ELSE IF resp.body.kind = "not_json" THEN "JSONDecodeError"
    ELSE IF resp.body.kind = "neither" THEN "KeyError"
    ELSE IF resp.body.errors = <<>> THEN "returned"
    ELSE RaisedFor(resp.status, FirstError(resp.body.errors))

\* A mutation: the token is kept whatever the status.
TokenAfterKept(status, token) == token

\* Lines 235-236 and the deleter, lines 125-128.
TokenAfter(status, token) == IF status = UNAUTHORIZED THEN 0 ELSE token

Sent(kind, token, status) == [kind |-> kind, token |-> token, status |-> status]

\* __init__, lines 93-99: the token given is stored, and when there is none
\* the access_token property authenticates (lines 112-123, 173-202); the
\* Authorization header is then set from it.
SessionInit ==
    /\ pc = "session_init"
    /\ IF access_token # 0
       THEN /\ auth_header' = access_token
            /\ pc' = "session_ready"
            /\ UNCHANGED <<access_token, auth_calls, wire, error>>
       ELSE \E resp \in Responses :
            /\ auth_calls' = auth_calls + 1
            /\ wire' = Append(wire, Sent("auth", 0, resp.status))
            /\ IF RequestOutcome(resp) # "returned"
               THEN /\ pc' = "failed"
                    /\ error' = RequestOutcome(resp)
                    /\ UNCHANGED <<access_token, auth_header>>
               ELSE IF resp.status >= 400
               THEN /\ pc' = "failed"
                    /\ error' = "KeyError"
                    /\ UNCHANGED <<access_token, auth_header>>
               ELSE /\ access_token' = auth_calls' + 1
                    /\ auth_header' = access_token'
                    /\ pc' = "session_ready"
                    /\ UNCHANGED error
    /\ UNCHANGED <<envVars, recVars, genVars, repVars, bookVars, syncVars,
                   call_start, last_response, outcome>>

\* request, lines 221-261: one call.
SessionRequest ==
    /\ pc = "session_ready"
    /\ Len(wire) < MaxRequests
    /\ \E resp \in Responses :
        /\ wire' = Append(wire, Sent("api", auth_header, resp.status))
        /\ call_start' = Len(wire) + 1
        /\ last_response' = resp
        /\ outcome' = RequestOutcome(resp)
        /\ access_token' = IF resp.status >= 400
                           THEN TokenAfter(resp.status, access_token)
                           ELSE access_token
    /\ UNCHANGED <<envVars, recVars, ctlVars, genVars, repVars, bookVars, syncVars,
                   auth_header, auth_calls>>

InitSession ==
    /\ today = 0
    /\ IdleEnv
    /\ pc = "session_init"
    /\ error = "none"
    /\ time_windows = None
    /\ windows = <<>>
    /\ rep = None
    /\ IdleReport
    /\ IdleBooks
    /\ IdleSync
    /\ access_token \in {0, 1}
    /\ auth_header = 0
    /\ auth_calls = 0
    /\ wire = <<>>
    /\ call_start = 0
    /\ last_response = None
    /\ outcome = "none"
    /\ IdleRecords

NextSession == SessionInit \/ SessionRequest

SpecSession == InitSession /\ [][NextSession]_vars

\* The requests the last call of request sent, and the authentications made
\* during it.
CallRequests == {i \in call_start .. Len(wire) : call_start > 0 /\ wire[i].kind = "api"}

CallAuths == {i \in call_start .. Len(wire) : call_start > 0 /\ wire[i].kind = "auth"}

Unauthorized == call_start > 0 /\ wire[call_start].status = UNAUTHORIZED

Raised == outcome \notin {"none", "returned"}

C13_SecondUnauthorizedPropagates ==
    Unauthorized =>
        /\ Cardinality(CallAuths) <= 1
        /\ Cardinality(CallRequests) <= 2
        /\ (/\ call_start > 1
            /\ wire[call_start - 1].kind = "api"
            /\ wire[call_start - 1].status = UNAUTHORIZED) => Raised

RateLimited ==
    /\ call_start > 0
    /\ last_response.status = 403
    /\ last_response.body.errors # <<>>
    /\ last_response.body.errors[1] = "E40003_TOO_MANY_REQUESTS"

----------------------------------------------------------------------------
(* Claims about close_of_business and the walk-back *)

CobRejected(q) == q.response.kind = "InvalidInputError"

\* C21: a request without the cube is sent only right after a request with
\* the cube, for the same date, was rejected as invalid input; every such
\* rejection is followed by one request without the cube; and when that
\* request fails its exception ends the call and reaches the caller.
C21_CobRetriesOnceWithoutCube ==
    \A i \in DOMAIN cob_log :
        /\ ~cob_log[i].cubeName =>
               /\ i > 1
               /\ cob_log[i - 1].cubeName
               /\ CobRejected(cob_log[i - 1])
               /\ cob_log[i - 1].date = cob_log[i].date
        /\ (cob_log[i].cubeName /\ CobRejected(cob_log[i])) =>
               /\ i < Len(cob_log)
               /\ ~cob_log[i + 1].cubeName
        /\ (cob_log[i].cubeName /\ ~CobRejected(cob_log[i])
                /\ cob_log[i].response.kind # "ok") =>
               /\ i = Len(cob_log)
               /\ pc = "failed"
               /\ error = cob_log[i].response.kind
        /\ (~cob_log[i].cubeName /\ cob_log[i].response.kind # "ok") =>
               /\ i = Len(cob_log)
               /\ pc = "failed"
               /\ error = cob_log[i].response.kind

C21_Witness ==
    /\ Len(cob_log) = 2
    /\ CobRejected(cob_log[1])
    /\ CobRejected(cob_log[2])
    /\ pc = "failed"
    /\ error = "InvalidInputError"

CubeUnsupported == \E i \in DOMAIN cob_log : cob_log[i].cubeName /\ CobRejected(cob_log[i])

\* C22: when the close-of-business request naming the cube is rejected as
\* unsupported, the walk-back ends without an error and the bookmark is the
\* window's start date.
C22_UnsupportedCubeDefaultsToStart ==
    CubeUnsupported =>
        /\ pc = "books_return"
        /\ bookmark_timestamp = cast_date_to_datetime(rep.start_date)

\* C23: no close-of-business request is made for today's date, the bookmark
\* returned is not today's date, and when the window ends today the first
\* date checked is yesterday.
C23_TodayIsNeverCheckedNorReturned ==
    /\ \A i \in DOMAIN cob_log : cob_log[i].date # today
    /\ BooksReturned => bookmark_timestamp.day # today
    /\ (rep # None /\ rep.end_date.day = today /\ cob_log # <<>>) =>
           cob_log[1].date = today - 1

C23_Witness ==
    /\ BooksReturned
    /\ rep.end_date.day = today
    /\ rep.start_date.day < today
    /\ bookmark_timestamp.day = today - 1

\* C24: the bookmark written for a window is the instant of midnight of the
\* resolved date in the advertiser's timezone, the timestamp are_books_closed
\* built from the close-of-business status.
C24_PersistedBookmarkIsAdvertiserMidnight ==
    [][(pc = "books_return" /\ pc' = "for_window") =>
           Instant(state'[StreamId]) = Instant(bookmark_timestamp)]_vars

----------------------------------------------------------------------------
(* More claims about generate_time_windows *)

\* C28: no yielded window starts after its end, and a range whose start is
\* after its end yields no window.
C28_NoWindowStartsAfterItsEnd ==
    pc = "generate_time_windows" =>
        /\ \A i \in 1 .. Len(windows) : windows[i][1] <= windows[i][2]
        /\ ~GenInputOrdered => windows = <<>>

\* The for loop that consumes the generator keeps asking for the next window.
SpecGenLive == SpecGen /\ WF_vars(GenIterate)

\* C29: the generator returns after finitely many windows, every window
\* starts strictly later than the one before it, and the last window yielded
\* ends at end.
C29_GeneratorTerminatesAtEnd ==
    /\ <>(time_windows.at = "returned")
    /\ [](\A i \in 1 .. Len(windows) - 1 : windows[i + 1][1] > windows[i][1])
    /\ [](time_windows.at = "returned" =>
              /\ Len(windows) >= 1
              /\ windows[Len(windows)][2] = time_windows.end.day)

C29_Witness ==
    /\ pc = "generate_time_windows"
    /\ time_windows.at = "returned"
    /\ Len(windows) >= 4
    /\ time_windows.size >= 2

----------------------------------------------------------------------------
(* Claims about the waits of poll *)

\* The polling loop runs on once it is entered.
SpecReportLive == SpecReport /\ WF_vars(ReportPoll)

PendingPolls ==
    {i \in Polls : /\ http_log[i].kind = "ok"
                   /\ http_log[i].status \in {"submitted", "running"}}

DelayLess(a, b) == a.num * b.den < b.num * a.den

\* C30: when the status becomes completed after submitted or running answers
\* only, poll ends and the report has the jobResponse of that completed
\* answer, which is the last status request; poll waits exactly once after
\* each submitted or running answer and not after any other, each wait is at
\* least one second and longer than the wait before it.
C30_PollWaitsAndTerminates ==
    /\ (pc = "poll") ~> (pc # "poll")
    /\ [](\A i \in CompletedPolls :
              /\ \A j \in Polls : j <= i
              /\ (\A j \in Polls : j < i => j \in PendingPolls) =>
                     rep.download_url \in {"url", "url0"})
    /\ [](Len(sleeps) = Cardinality(PendingPolls))
    /\ [][pc = "poll" => (sleeps' # sleeps <=> Len(http_log') \in PendingPolls')]_vars
    /\ [](\A i \in DOMAIN sleeps :
              /\ sleeps[i].n = i
              /\ sleeps[i].num >= sleeps[i].den
              /\ i > 1 => DelayLess(sleeps[i - 1], sleeps[i]))

C30_Witness ==
    /\ pc = "download"
    /\ Len(sleeps) >= 2
    /\ rep.poll_interval = 50
    /\ rep.download_url = "url"

----------------------------------------------------------------------------
(* Claims about listing streams *)

ObjectStreamRunning ==
    /\ stream_idx >= 1
    /\ StreamId \in OBJECT_MAP
    /\ pc \in {"stream_body", "write_records"}

\* C26: while a selected listing stream is synced there is no report, no
\* report request, no close-of-business request and no bookmark written; its
\* entry of the state is never changed; and when write_records returns, every
\* listed row has been emitted.
C26_ListingStreamIsNotIncremental ==
    /\ [](ObjectStreamRunning =>
              /\ rep = None
              /\ http_log = <<>>
              /\ cob_log = <<>>
              /\ persisted = <<>>)
    /\ [][\A id \in OBJECT_MAP \cap DOMAIN state : state'[id] = state[id]]_vars
    /\ [][(ObjectStreamRunning /\ stream_idx' = stream_idx) =>
              (state' = state /\ emitted' = emitted)]_vars
    /\ [][(ObjectStreamRunning /\ pc = "write_records" /\ pc' = "for_stream") =>
              (counter = downloaded /\ rows = <<>>)]_vars

C26_Witness ==
    /\ ObjectStreamRunning
    /\ StreamId = "advertiser"
    /\ pc = "write_records"
    /\ rows = <<>>
    /\ counter = 2
    /\ emitted # None


----------------------------------------------------------------------------
(* write_records on the rows of one download *)

MaxFields == 2

\* The rows of at most MaxFields fields: a dict, so no key comes twice.
Rows ==
    {row \in UNION {[1 .. n -> {Field(key, v) : key \in DOMAIN Properties,
                                                v \in RawValues}] :
                       n \in 1 .. MaxFields} :
        \A i, j \in DOMAIN row : row[i].key = row[j].key => i = j}

GoodRow == <<Field("Clicks", Text("12"))>>

\* The downloads of at most MaxRows rows: any row among rows that cast.
RecordRowSeqs ==
    {[i \in 1 .. n |-> IF i = k THEN row ELSE GoodRow] :
        <<n, k>> \in {nk \in (1 .. MaxRows) \X (1 .. MaxRows) : nk[2] <= nk[1]},
        row \in Rows}

InitRecords ==
    /\ today = 0
    /\ now_min = 0
    /\ pending_limit = MaxPollAttempts
    /\ config = [start_date |-> 0, advertiser_ids |-> <<>>]
    /\ catalog = <<"advertiser">>
    /\ selected = {"advertiser"}
    /\ pc = "write_records"
    /\ error = "none"
    /\ time_windows = None
    /\ windows = <<>>
    /\ rep = None
    /\ n_attempts = 0
    /\ http_log = <<>>
    /\ sleeps = <<>>
    /\ rows \in RecordRowSeqs
    /\ downloaded = Len(rows)
    /\ counter = 0
    /\ IdleBooks
    /\ stream_idx = 1
    /\ start_date = None
    /\ state = <<>>
    /\ emitted = None
    /\ session = None
    /\ persisted = <<>>
    /\ schemas = {"advertiser"}
    /\ IdleSession
    /\ IdleRecords

NextRecords == WriteRecord \/ WriteRecordsReturn

SpecRecords == InitRecords /\ [][NextRecords]_vars

\* The value cannot be cast to the data type t.
CannotCast(value, t) ==
    /\ value # None
    /\ \/ t = "integer" /\ value.repr \notin IntTexts
       \/ t = "number" /\ value.repr \notin FloatTexts
       \/ t \notin {"string", "integer", "number"}

\* The field cannot be cast, whichever of its declared types is taken.
Uncastable(f) == \A t \in PoppedTypes(Properties[f.key]) : CannotCast(f.value, t)

UncastableAt(row) == {i \in DOMAIN row : Uncastable(row[i])}

FirstUncastable(row) ==
    CHOOSE i \in UncastableAt(row) : \A j \in UncastableAt(row) : i <= j

\* The Python type a declared type is cast to.
CastType(t) ==
    IF t = "string" THEN "str" ELSE IF t = "integer" THEN "int"
    ELSE IF t = "number" THEN "float" ELSE "none"

\* C27: a field that cannot be cast to its declared type is never silently
\* coerced.  Reading a row with such a field ends write_records with the
\* ValueError, the error log names a field of that row that failed its cast,
\* the row is not emitted and nothing is emitted afterwards; and every value
\* that is emitted is None or has the Python type of a declared type.
C27_UncastableFieldEndsRun ==
    /\ [][(pc = "write_records" /\ rows # <<>> /\ UncastableAt(Head(rows)) # {}) =>
            LET row == Head(rows)
                i == FirstUncastable(row)
            IN  /\ pc' = "failed"
                /\ error' = "ValueError"
                /\ \E j \in 1 .. i :
                      /\ bad_field' = row[j].key
                      /\ \E t \in PoppedTypes(Properties[row[j].key]) :
                            CannotCast(row[j].value, t)
                /\ written' = written
                /\ rows' = rows
                /\ counter' = counter]_vars
    /\ [][pc = "failed" => written' = written /\ pc' = "failed"]_vars
    /\ [](\A w \in DOMAIN written : \A g \in DOMAIN written[w] :
             LET f == written[w][g]
             IN  \/ f.value = None
                 \/ \E t \in PoppedTypes(Properties[f.key]) :
                       f.value.type = CastType(t))

C27_Witness ==
    /\ pc = "failed"
    /\ error = "ValueError"
    /\ bad_field = "Clicks"
    /\ Len(rows) = 2
    /\ Head(rows) = <<Field("Campaign", Text("abc")), Field("Clicks", Text("abc"))>>
    /\ written = <<>>


\* C25: two runs given the same inputs emit the same records, row for row.
\* Whatever a run does with the row it reads, every other run given that row
\* does the same: a record it emits is the record each of them emits, and it
\* emits none where one of them fails.
C25_SameInputsSameRecords ==
    [][(pc = "write_records" /\ rows # <<>>) =>
         \A o \in transform_record(Head(rows)) :
            IF o.exc # "none"
            THEN written' = written
            ELSE written' # written => written' = Append(written, o.record)]_vars


\* The start date a report stream without a bookmark gets from the
\* configuration and its own look-back limit alone.
OwnStart(stream_id) ==
    LET configured == Datetime(config.start_date, "UTC")
    IN  IF /\ stream_id \in DOMAIN MAX_LOOK_BACK_DAYS
           /\ Instant(LookBackStart(stream_id)) > Instant(configured)
        THEN LookBackStart(stream_id)
        ELSE configured

\* C31: the start date of a report stream that has no bookmark of its own is
\* fixed by the configured start date and that stream's look-back limit; what
\* an earlier stream of the run did to its start date has no part in it.
C31_StartDateIsTheStreamsOwn ==
    [][(pc = "stream_body" /\ pc' = "for_window" /\ state[StreamId] = None) =>
          start_date' = OwnStart(StreamId)]_vars


\* C32: every bookmark written for a window of the current stream is a date
\* not later than the end date of that window, and the step that writes it
\* puts a date not later than the end date of the report just read into the
\* state dictionary and the STATE message.
C32_BookmarkNotAfterWindowEnd ==
    /\ [](stream_idx >= 1 =>
            /\ Len(persisted) <= Len(windows)
            /\ \A i \in DOMAIN persisted : persisted[i] <= windows[i][2])
    /\ [][(pc = "books_return" /\ pc' = "for_window") =>
            /\ state'[StreamId].day <= rep.end_date.day
            /\ emitted'[StreamId].day <= rep.end_date.day]_vars

C32_Witness ==
    /\ pc = "for_window"
    /\ Len(persisted) = 2
    /\ persisted[1] = windows[1][2]
    /\ persisted[2] < windows[2][2]
    /\ emitted[StreamId] = Str(persisted[2])


\* The requests to the API that were answered 401, and for such a request
\* the next request to the API the session sent after it.
Rejected == {i \in DOMAIN wire : wire[i].kind = "api" /\ wire[i].status = UNAUTHORIZED}

ApiAfter(i) == {j \in DOMAIN wire : j > i /\ wire[j].kind = "api"}

NextApi(i) == CHOOSE j \in ApiAfter(i) : \A k \in ApiAfter(i) : j <= k

\* C33: the request that follows a request answered 401 carries an access
\* token in its Authorization header that is not the one the 401 rejected.
C33_RequestAfterUnauthorizedCarriesFreshToken ==
    \A i \in Rejected :
        ApiAfter(i) # {} =>
            /\ wire[NextApi(i)].token # 0
            /\ wire[NextApi(i)].token # wire[i].token


\* C34: a call of request whose response has an error status does not return
\* the response; it ends with an exception, whatever the body lists.
C34_ErrorStatusAlwaysRaises ==
    (call_start > 0 /\ last_response.status >= 400) => outcome # "returned"


\* A step that emits a record.
RecordEmitted == Len(written') > Len(written)

\* C35: a record is emitted only for the current stream, after its schema
\* message, which is written once, on entering the stream; a STATE message is
\* emitted only when every row of the window has been read and emitted, and
\* the records emitted afterwards belong to a later window; a stream that is
\* not selected is only stepped over: no schema, no record, no bookmark and
\* no request is made for it.
C35_OutputOrderAndSelection ==
    /\ [][RecordEmitted => StreamId \in schemas /\ schemas' = schemas]_vars
    /\ [][schemas' # schemas =>
             /\ stream_idx' = stream_idx + 1
             /\ catalog[stream_idx'] \notin schemas
             /\ schemas' = schemas \cup {catalog[stream_idx']}
             /\ rows = <<>> /\ written = <<>>]_vars
    /\ [][emitted' # emitted =>
             /\ rows = <<>>
             /\ written = <<>>
             /\ counter = downloaded
             /\ Len(persisted') = Len(windows)
             /\ emitted'[StreamId] = Str(persisted'[Len(windows)])]_vars
    /\ [][(RecordEmitted /\ StreamId \notin OBJECT_MAP) =>
             Len(persisted) = Len(windows) - 1]_vars
    /\ [](schemas \subseteq selected)
    /\ []((stream_idx >= 1 /\ StreamId \notin selected) => pc \in {"for_stream", "done"})
    /\ [][\A s \in Range(catalog) \ selected :
             /\ state'[s] = state[s]
             /\ (emitted # None /\ emitted' # None) => emitted'[s] = emitted[s]]_vars
    /\ [][(stream_idx' # stream_idx /\ catalog[stream_idx'] \notin selected) =>
             UNCHANGED <<schemas, state, emitted, session, genVars, repVars, bookVars,
                         recVars, sessVars>>]_vars

C35_Witness ==
    /\ pc = "books_return"
    /\ stream_idx = 3
    /\ "performance_stats" \in selected
    /\ "keyword_stats" \notin selected
    /\ schemas = {"performance_stats", "campaign_bid_performance_stats"}
    /\ counter = 2
    /\ state["performance_stats"] # None
    /\ emitted # None
    /\ emitted["keyword_stats"] = None

====
